---- MODULE Spec2Model ----
(***************************************************************************)
(* Model of custom_components/timer/__init__.py: the Timer entity, the     *)
(* scheduler callbacks it arms through async_track_point_in_utc_time, the  *)
(* events it fires on the bus and its restore-on-restart reconciliation.   *)
(*                                                                         *)
(* Time is counted in whole seconds (the code truncates "now" to whole     *)
(* seconds and all durations used here are whole seconds).  The host's     *)
(* local time zone is taken to be UTC.  The scheduler runs a callback no   *)
(* later than the second in which it is due: the clock does not advance    *)
(* past a due callback that is still scheduled, while any command may      *)
(* still be served before the callback runs.                               *)
(***************************************************************************)
EXTENDS Integers, Sequences, FiniteSets, Bags, TLC

(* ---- bounds of the model ---- *)
MaxTime == 2
MaxDuration == 2
MaxGrace == 1
MaxOverrun == 2
MaxCallbacks == 2

(* ---- program constants ---- *)
STATUS_IDLE == "idle"
STATUS_ACTIVE == "active"
STATUS_PAUSED == "paused"
VIABLE_STATUSES == {STATUS_IDLE, STATUS_ACTIVE, STATUS_PAUSED}

EVENT_TIMER_FINISHED == "timer.finished"
EVENT_TIMER_CANCELLED == "timer.cancelled"
EVENT_TIMER_STARTED == "timer.started"
EVENT_TIMER_RESTARTED == "timer.restarted"
EVENT_TIMER_PAUSED == "timer.paused"

(* ---- optional values: None is the empty set, a present value x is {x} ---- *)
None == {}
Some(x) == {x}
The(s) == CHOOSE x \in s : TRUE

(* The values self._restore takes: a bool, or the str of a bool. Python *)
(* tests them by their truth value, and every non-empty str is true.    *)
PyBool(b) == [type |-> "bool", v |-> b]
PyStr(b) == [type |-> "str", v |-> b]
py_str(x) == PyStr(x.v)
Truthy(x) == IF x.type = "bool" THEN x.v ELSE TRUE

(* ---- input domains ---- *)
Durations == 0..MaxDuration
Graces == 0..MaxGrace
RestoredEnds == (0 - MaxOverrun)..MaxDuration
(* a state value the host stores for an entity that was not available *)
ForeignStates == {"unavailable"}

(* ---- attribute strings ---- *)
(* An "H:MM:SS" string is the record of its three fields; the other strings *)
(* that matter to the parser are the literal "None", a string with a       *)
(* non-numeric field ("bad") and a string with fewer than three fields      *)
(* ("short").                                                               *)
Hms(h, m, s) == [kind |-> "hms", h |-> h, m |-> m, s |-> s]
NoneStr == [kind |-> "None", h |-> 0, m |-> 0, s |-> 0]
BadStr == [kind |-> "bad", h |-> 0, m |-> 0, s |-> 0]
ShortStr == [kind |-> "short", h |-> 0, m |-> 0, s |-> 0]

(* _format_timedelta: divmod(total_seconds, 3600), divmod(remainder, 60) *)
_format_timedelta(delta) ==
    LET hours == delta \div 3600
        remainder == delta % 3600
        minutes == remainder \div 60
        seconds == remainder % 60
    IN  Hms(hours, minutes, seconds)

(* str(timedelta()) *)
ZeroStr == Hms(0, 0, 0)

(* timedelta(hours=d[0], minutes=d[1], seconds=d[2]) of list(map(int, split(":"))) *)
ParseHms(str) == str.h * 3600 + str.m * 60 + str.s

(* cv.time_period_str of a configuration string *)
time_period_str(str) == ParseHms(str)

(* finishes_at: str(datetime) on writing, strptime on reading.  A written  *)
(* timestamp is the record of its instant; "bad" does not match the format. *)
TsStr(t) == [kind |-> "ts", t |-> t]
BadTs == [kind |-> "bad", t |-> 0]
FormatFinishesAt(end) == TsStr(end)
ParseFinishesAt(str) == IF str.kind = "ts" THEN Some(str.t) ELSE None

VARIABLES
    pc,          \* "created" after __init__, "running" after async_added_to_hass,
                 \* "quiet" once no service is called and no item updated any more
    now,         \* dt_util.utcnow().replace(microsecond=0)
    state,       \* self._state
    duration,    \* self._duration
    remaining,   \* self._remaining
    end,         \* self._end (optional)
    listener,    \* self._listener: optional unsubscribe function
    restore,     \* self._restore: a bool, or the str of one (see _update_data)
    grace,       \* self._restore_grace_period (optional)
    sched,       \* bag of the callbacks scheduled and neither run nor cancelled
    emitted,     \* events fired on the bus by the last operation
    wrote,       \* the last operation called async_write_ha_state
    raised,      \* the last operation ended by an uncaught exception
    hist         \* the last operation and its inputs

vars == <<pc, now, state, duration, remaining, end, listener, restore,
          grace, sched, emitted, wrote, raised, hist>>

(* The Timer object together with the scheduler and the bus, as one value. *)
Self ==
    [state |-> state, duration |-> duration,
     remaining |-> remaining, end |-> end, listener |-> listener,
     restore |-> restore, grace |-> grace, sched |-> sched,
     emitted |-> <<>>, wrote |-> FALSE, raised |-> FALSE]

(* ---- the scheduler ---- *)
(* A scheduled callback is [at, own]: the instant it is due, and whether    *)
(* self._listener is its unsubscribe function.  The Timer only ever holds   *)
(* the unsubscribe function of the callback it armed last, so callbacks it  *)
(* holds no reference to differ by their instant alone; the scheduler keeps *)
(* a bag of them.                                                           *)
UNSUB == "unsub"
Callback(at, own) == [at |-> at, own |-> own]
Owned(callbacks) == {c \in BagToSet(callbacks) : c.own}

(* the unsubscribe function returned by async_track_point_in_utc_time: it *)
(* takes its callback off the schedule, if it is still there             *)
Unsub(callbacks) == callbacks (-) SetToBag(Owned(callbacks))

(* the reference to the unsubscribe function is dropped: the callback stays *)
(* scheduled and nothing can cancel it any more                            *)
Disown(callbacks) ==
    (callbacks (-) SetToBag(Owned(callbacks)))
        (+) SetToBag({Callback(c.at, FALSE) : c \in Owned(callbacks)})

(* async_track_point_in_utc_time(hass, self._async_finished, at) *)
async_track_point_in_utc_time(callbacks, at) ==
    callbacks (+) SetToBag({Callback(at, TRUE)})

(* self._listener = None *)
ForgetListener(t) == [t EXCEPT !.listener = None, !.sched = Disown(t.sched)]

(* if self._listener: self._listener(); self._listener = None *)
CancelListener(t) ==
    IF t.listener # None
    THEN [t EXCEPT !.sched = Unsub(t.sched), !.listener = None]
    ELSE t

Fire(t, event) == [t EXCEPT !.emitted = Append(t.emitted, event)]
async_write_ha_state(t) == [t EXCEPT !.wrote = TRUE]

Raise(t) == [t EXCEPT !.raised = TRUE]

(* state_attributes: the attributes written with the state; an absent key is None *)
state_attributes(t) ==
    [duration |-> Some(_format_timedelta(t.duration)),
     remaining |-> Some(_format_timedelta(t.remaining)),
     finishes_at |-> IF t.end # None THEN Some(FormatFinishesAt(The(t.end))) ELSE None]

(* Variants of the operations below that differ from the source in one *)
(* place each; the properties further down tell them apart.            *)

(* async_pause that leaves remaining as it was instead of end - now *)
async_pause_keeps_remaining(t) ==
    IF t.listener = None THEN t
    ELSE LET t1 == CancelListener(t)
         IN  IF t1.end = None THEN Raise(t1)
             ELSE async_write_ha_state(Fire(
                    [t1 EXCEPT !.state = STATUS_PAUSED,
                               !.end = None],
                    EVENT_TIMER_PAUSED))

(* _async_finished that returns without any effect *)
_async_finished_returns(t) == t

(* async_cancel that drops its reference to the callback without calling it *)
async_cancel_forgets(t) ==
    LET t1 == ForgetListener(t)
    IN  async_write_ha_state(Fire(
            [t1 EXCEPT !.state = STATUS_IDLE, !.end = None, !.remaining = 0],
            EVENT_TIMER_CANCELLED))

(* async_start without the first branch: a start without a duration *)
(* always counts down the whole duration again                      *)
async_start_from_duration(t, d) ==
    LET t1 == CancelListener(t)
        newduration == IF d # None /\ The(d) # 0 THEN d ELSE None
        event == IF t1.state = STATUS_ACTIVE \/ t1.state = STATUS_PAUSED
                 THEN EVENT_TIMER_RESTARTED ELSE EVENT_TIMER_STARTED
        t2 == [t1 EXCEPT !.state = STATUS_ACTIVE]
        start == now
        t3 == IF newduration # None
              THEN [t2 EXCEPT !.duration = The(newduration),
                              !.remaining = The(newduration),
                              !.end = Some(start + The(newduration))]
              ELSE [t2 EXCEPT !.remaining = t2.duration,
                              !.end = Some(start + t2.duration)]
        t4 == Fire(t3, event)
        t5 == [t4 EXCEPT !.listener = Some(UNSUB),
                         !.sched = async_track_point_in_utc_time(@, The(t4.end))]
    IN  async_write_ha_state(t5)

(* async_start that tells a restart only from the active state *)
async_start_restarted_if_active(t, d) ==
    LET t1 == CancelListener(t)
        newduration == IF d # None /\ The(d) # 0 THEN d ELSE None
        event == IF t1.state = STATUS_ACTIVE
                 THEN EVENT_TIMER_RESTARTED ELSE EVENT_TIMER_STARTED
        t2 == [t1 EXCEPT !.state = STATUS_ACTIVE]
        start == now
        t3 == IF t2.remaining # 0 /\ newduration = None
              THEN [t2 EXCEPT !.end = Some(start + t2.remaining)]
              ELSE IF newduration # None
              THEN [t2 EXCEPT !.duration = The(newduration),
                              !.remaining = The(newduration),
                              !.end = Some(start + The(newduration))]
              ELSE [t2 EXCEPT !.remaining = t2.duration,
                              !.end = Some(start + t2.duration)]
        t4 == Fire(t3, event)
        t5 == [t4 EXCEPT !.listener = Some(UNSUB),
                         !.sched = async_track_point_in_utc_time(@, The(t4.end))]
    IN  async_write_ha_state(t5)

(* Timer.async_start; d is the optional duration argument *)
async_start(t, d) ==
    LET t1 == CancelListener(t)
        newduration == IF d # None /\ The(d) # 0 THEN d ELSE None
        event == IF t1.state = STATUS_ACTIVE \/ t1.state = STATUS_PAUSED
                 THEN EVENT_TIMER_RESTARTED ELSE EVENT_TIMER_STARTED
        t2 == [t1 EXCEPT !.state = STATUS_ACTIVE]
        start == now
        t3 == IF t2.remaining # 0 /\ newduration = None
              THEN [t2 EXCEPT !.end = Some(start + t2.remaining)]
              ELSE IF newduration # None
              THEN [t2 EXCEPT !.duration = The(newduration),
                              !.remaining = The(newduration),
                              !.end = Some(start + The(newduration))]
              ELSE [t2 EXCEPT !.remaining = t2.duration,
                              !.end = Some(start + t2.duration)]
        t4 == Fire(t3, event)
        t5 == [t4 EXCEPT !.listener = Some(UNSUB),
                         !.sched = async_track_point_in_utc_time(@, The(t4.end))]
    IN  async_write_ha_state(t5)

(* Timer.async_pause *)
async_pause(t) ==
    IF t.listener = None THEN t
    ELSE LET t1 == CancelListener(t)
         IN  IF t1.end = None THEN Raise(t1)
             ELSE async_write_ha_state(Fire(
                    [t1 EXCEPT !.remaining = The(t1.end) - now,
                               !.state = STATUS_PAUSED,
                               !.end = None],
                    EVENT_TIMER_PAUSED))

(* Timer.async_cancel *)
async_cancel(t) ==
    LET t1 == CancelListener(t)
    IN  async_write_ha_state(Fire(
            [t1 EXCEPT !.state = STATUS_IDLE, !.end = None, !.remaining = 0],
            EVENT_TIMER_CANCELLED))

(* async_finish without its guard on the state *)
async_finish_unguarded(t) ==
    async_write_ha_state(Fire(
        [ForgetListener(t) EXCEPT !.state = STATUS_IDLE,
                                  !.end = None, !.remaining = 0],
        EVENT_TIMER_FINISHED))

(* Timer.async_finish: the listener is forgotten, not unsubscribed *)
async_finish(t) ==
    IF t.state # STATUS_ACTIVE THEN t
    ELSE async_write_ha_state(Fire(
            [ForgetListener(t) EXCEPT !.state = STATUS_IDLE,
                                      !.end = None, !.remaining = 0],
            EVENT_TIMER_FINISHED))

(* Timer._async_finished, run by the scheduler *)
_async_finished(t) ==
    IF t.state # STATUS_ACTIVE THEN t
    ELSE async_write_ha_state(Fire(
            [ForgetListener(t) EXCEPT !.state = STATUS_IDLE,
                                      !.end = None, !.remaining = 0],
            EVENT_TIMER_FINISHED))


(* bool(self._config[CONF_DURATION]).  The value is the string that        *)
(* cv.time_period_str accepted in __init__ or async_update_config, and a    *)
(* string it accepts is not empty, so it is true in every state.            *)
ConfigDurationSet(t) == TRUE

(* Timer._restore_state, lines 416-431: the state is adopted as given (the  *)
(* assignment of STATUS_IDLE is overwritten by the next statement).  The    *)
(* duration block reads the unbound name `config` on its last line, so it   *)
(* raises whenever it is entered.                                           *)
RestoreDuration(t, restored_state, attrs) ==
    LET t1 == [t EXCEPT !.state = restored_state]
    IN  IF ~ConfigDurationSet(t1) /\ attrs.duration # Some(NoneStr)
        THEN Raise(t1)
        ELSE t1

(* Timer._restore_state, lines 433-445: remaining is read for a paused timer *)
RestoreRemaining(t, attrs) ==
    LET str == IF attrs.remaining = None THEN NoneStr ELSE The(attrs.remaining)
    IN  IF t.state = STATUS_PAUSED
           /\ attrs.remaining # Some(NoneStr)
           /\ attrs.remaining # Some(ZeroStr)
        THEN IF str.kind = "hms"
             THEN [t EXCEPT !.remaining = ParseHms(str)]
             ELSE IF str.kind = "short"
             THEN Raise(t)
             ELSE [t EXCEPT !.remaining = t.duration]
        ELSE [t EXCEPT !.remaining = 0]

(* Timer._restore_state, lines 447-454 *)
RestoreEnd(t, attrs) ==
    IF attrs.finishes_at # None
    THEN [t EXCEPT !.end = ParseFinishesAt(The(attrs.finishes_at))]
    ELSE [t EXCEPT !.end = None]

(* Timer._restore_state, lines 456-476: a timer that was active *)
RestoreActive(t) ==
    IF t.state = STATUS_ACTIVE
    THEN LET t1 == [t EXCEPT !.remaining = IF t.end # None THEN The(t.end) - now ELSE 0]
         IN  IF t1.remaining + The(t1.grace) >= 0
             THEN async_start([t1 EXCEPT !.state = STATUS_PAUSED, !.end = None], None)
             ELSE [t1 EXCEPT !.state = STATUS_IDLE]
    ELSE t

(* Timer._restore_state *)
_restore_state(t, restored_state, attrs) ==
    LET t1 == RestoreDuration(t, restored_state, attrs)
        t2 == IF t1.raised THEN t1 ELSE RestoreRemaining(t1, attrs)
        t3 == IF t2.raised THEN t2 ELSE RestoreEnd(t2, attrs)
    IN  IF t3.raised THEN t3 ELSE RestoreActive(t3)

(* Timer.async_update_config; cfg is [duration, restore, grace] *)
async_update_config(t, cfg) ==
    LET t1 == [t EXCEPT !.duration = time_period_str(cfg.duration),
                        !.restore = cfg.restore]
    IN  IF Truthy(t1.restore)
        THEN LET t2 == [t1 EXCEPT !.grace = Some(time_period_str(cfg.grace))]
                 t3 == _restore_state(t2, t2.state, state_attributes(t2))
             IN  IF t3.raised THEN t3 ELSE async_write_ha_state(t3)
        ELSE async_write_ha_state(
                [ForgetListener(t1) EXCEPT !.state = STATUS_IDLE, !.end = None,
                                           !.remaining = 0, !.grace = Some(0)])

(* Timer.async_added_to_hass; last is the optional last recorded state *)
async_added_to_hass(t, last) ==
    IF ~Truthy(t.restore) THEN [t EXCEPT !.state = STATUS_IDLE]
    ELSE IF last = None THEN [t EXCEPT !.state = STATUS_IDLE]
    ELSE _restore_state(t, The(last).state, The(last).attributes)

(* ---- the inputs ---- *)
(* configurations as CONFIG_SCHEMA delivers them: time periods formatted by *)
(* _format_timedelta, restore a boolean (cv.boolean)                        *)
Configs ==
    [duration : {_format_timedelta(d) : d \in Durations},
     restore : {PyBool(b) : b \in BOOLEAN},
     grace : {_format_timedelta(g) : g \in Graces}]

(* TimerStorageCollection._update_data: the item the collection stores and  *)
(* hands to the Timer after an update that names restore; the time periods  *)
(* are formatted, restore is replaced by its str                            *)
_update_data(cfg) == [cfg EXCEPT !.restore = py_str(cfg.restore)]

(* the items of the storage collection: as created, or as updated *)
StoredConfigs == Configs \cup {_update_data(cfg) : cfg \in Configs}

HmsStrings == {_format_timedelta(d) : d \in Durations}
RemainingStrings == HmsStrings \cup {NoneStr, BadStr, ShortStr}

(* the last recorded states the store may hand back *)
LastStates ==
    [state : VIABLE_STATUSES \cup ForeignStates,
     attributes : [duration : {Some(x) : x \in HmsStrings},
                   remaining : {Some(x) : x \in RemainingStrings} \cup {None},
                   finishes_at : {Some(TsStr(e)) : e \in RestoredEnds}
                                 \cup {Some(BadTs), None}]]

(* ---- the state machine ---- *)
(* How far the calls so far are into a pause/resume round trip: start(d)   *)
(* with d > 0 on an idle Timer ("started", e seconds ago), then pause()     *)
(* after 0 < e < d seconds in which nothing else was called and no callback *)
(* ran ("paused"), then start() without a duration ("resumed"). A cancel()  *)
(* in the "started" stage ends the trip as "cancelled".                     *)
NoTrip == [stage |-> "none", d |-> 0, e |-> 0]
Trip(op, d) ==
    LET trip == hist.trip
    IN  IF op = "start"
        THEN IF state = STATUS_IDLE /\ d # None /\ The(d) > 0
             THEN [stage |-> "started", d |-> The(d), e |-> 0]
             ELSE IF trip.stage = "paused" /\ (d = None \/ The(d) = 0)
             THEN [trip EXCEPT !.stage = "resumed"]
             ELSE NoTrip
        ELSE IF op = "tick"
        THEN IF trip.stage = "started"
             THEN IF trip.e + 1 < trip.d THEN [trip EXCEPT !.e = @ + 1] ELSE NoTrip
             ELSE IF trip.stage = "paused" THEN trip ELSE NoTrip
        ELSE IF op = "pause"
        THEN IF trip.stage = "started" /\ trip.e > 0
             THEN [trip EXCEPT !.stage = "paused"]
             ELSE NoTrip
        ELSE IF op = "cancel"
        THEN IF trip.stage = "started"
             THEN [trip EXCEPT !.stage = "cancelled"]
             ELSE NoTrip
        ELSE NoTrip

(* the last operation: its name, its duration argument, the last recorded *)
(* state handed to it, and the round trip it is part of                   *)
Hist(op, d, snap) == [op |-> op, d |-> d, snap |-> snap, trip |-> Trip(op, d)]

(* the variables after an operation that left the Timer object as t *)
Apply(t) ==
    /\ state' = t.state
    /\ duration' = t.duration
    /\ remaining' = t.remaining
    /\ end' = t.end
    /\ listener' = t.listener
    /\ restore' = t.restore
    /\ grace' = t.grace
    /\ sched' = t.sched
    /\ emitted' = t.emitted
    /\ wrote' = t.wrote
    /\ raised' = t.raised

(* Timer.__init__ *)
Created(cfg) ==
    /\ pc = "created"
    /\ now = 0
    /\ duration = time_period_str(cfg.duration)
    /\ restore = cfg.restore
    /\ grace = IF Truthy(cfg.restore) THEN Some(time_period_str(cfg.grace)) ELSE None
    /\ state = STATUS_IDLE
    /\ remaining = duration
    /\ end = None
    /\ listener = None
    /\ sched = EmptyBag
    /\ emitted = <<>>
    /\ wrote = FALSE
    /\ raised = FALSE
    /\ hist = [op |-> "init", d |-> None, snap |-> None, trip |-> NoTrip]

(* a Timer of the YAML configuration *)
Init == \E cfg \in Configs : Created(cfg)

(* a Timer of the storage collection, made from the item as it is stored *)
InitStored == \E cfg \in StoredConfigs : Created(cfg)

(* the operation left no more callbacks scheduled than the model holds *)
WithinBounds(t) == BagCardinality(t.sched) <= MaxCallbacks
Running == pc = "running" /\ ~raised
(* the entity is added: the scheduler runs its callbacks *)
Attached == pc \in {"running", "quiet"} /\ ~raised

Attach ==
    /\ pc = "created"
    /\ \E last \in {Some(x) : x \in LastStates} \cup {None} :
          \E t \in {async_added_to_hass(Self, last)} :
             WithinBounds(t) /\ Apply(t) /\ hist' = Hist("attach", None, last)
    /\ pc' = "running"
    /\ UNCHANGED now

Start ==
    /\ Running
    /\ \E d \in Durations :
          \E t \in {async_start(Self, Some(d))} :
             WithinBounds(t) /\ Apply(t) /\ hist' = Hist("start", Some(d), None)
    /\ UNCHANGED <<pc, now>>

Pause ==
    /\ Running
    /\ \E t \in {async_pause(Self)} :
          Apply(t) /\ hist' = Hist("pause", None, None)
    /\ UNCHANGED <<pc, now>>

Cancel ==
    /\ Running
    /\ \E t \in {async_cancel(Self)} :
          Apply(t) /\ hist' = Hist("cancel", None, None)
    /\ UNCHANGED <<pc, now>>

Finish ==
    /\ Running
    /\ \E t \in {async_finish(Self)} :
          Apply(t) /\ hist' = Hist("finish", None, None)
    /\ UNCHANGED <<pc, now>>

(* the scheduler runs a due callback: it leaves the schedule and calls *)
(* Timer._async_finished                                                *)
Timeout ==
    /\ Attached
    /\ \E c \in BagToSet(sched) :
          /\ c.at <= now
          /\ \E t0 \in {[Self EXCEPT !.sched = sched (-) SetToBag({c})]} :
                \E t \in {_async_finished(t0)} :
                   Apply(t) /\ hist' = Hist("timeout", None, None)
    /\ UNCHANGED <<pc, now>>

UpdateConfig ==
    /\ Running
    /\ \E cfg \in Configs :
          \E t \in {async_update_config(Self, cfg)} :
             WithinBounds(t) /\ Apply(t) /\ hist' = Hist("update_config", None, None)
    /\ UNCHANGED <<pc, now>>

(* an update of the Timer's item in the storage collection *)
UpdateStored ==
    /\ Running
    /\ \E cfg \in StoredConfigs :
          \E t \in {async_update_config(Self, cfg)} :
             WithinBounds(t) /\ Apply(t) /\ hist' = Hist("update_config", None, None)
    /\ UNCHANGED <<pc, now>>

(* a second passes; a due callback is run first *)
Tick ==
    /\ Attached
    /\ now < MaxTime \/ (pc = "quiet" /\ sched # EmptyBag)
    /\ \A c \in BagToSet(sched) : c.at > now
    /\ now' = now + 1
    /\ emitted' = <<>>
    /\ wrote' = FALSE
    /\ hist' = Hist("tick", None, None)
    /\ UNCHANGED <<pc, state, duration, remaining, end, listener, restore,
                   grace, sched, raised>>

Next ==
    \/ Attach
    \/ Start
    \/ Pause
    \/ Cancel
    \/ Finish
    \/ Timeout
    \/ UpdateConfig
    \/ Tick

Spec == Init /\ [][Next]_vars

(* the Timer is active, and from here on no service is called and no *)
(* configuration updated                                              *)
Quiesce ==
    /\ Running
    /\ state = STATUS_ACTIVE
    /\ pc' = "quiet"
    /\ emitted' = <<>>
    /\ wrote' = FALSE
    /\ hist' = Hist("quiesce", None, None)
    /\ UNCHANGED <<now, state, duration, remaining, end, listener, restore,
                   grace, sched, raised>>

(* The Timer with calls that stop at some time, a clock that goes on and a *)
(* scheduler that runs every due callback.                                 *)
NextLive ==
    \/ Next
    \/ Quiesce

SpecLive == Init /\ [][NextLive]_vars /\ WF_vars(Tick) /\ WF_vars(Timeout)

(* the same for a Timer of the storage collection *)
NextStored ==
    \/ Attach
    \/ Start
    \/ Pause
    \/ Cancel
    \/ Finish
    \/ Timeout
    \/ UpdateStored
    \/ Tick

SpecStored == InitStored /\ [][NextStored]_vars

(* ---- properties ---- *)
(* the last operation ran to its end on an attached Timer *)
Completed == pc = "running" /\ ~raised

(* the last operation was the reconciliation, on attaching, of a last      *)
(* recorded state that says active and carries a readable finishes_at      *)
RestoredActive ==
    /\ hist.op = "attach"
    /\ Truthy(restore)
    /\ ~raised
    /\ hist.snap # None
    /\ The(hist.snap).state = STATUS_ACTIVE
    /\ The(hist.snap).attributes.finishes_at # None
    /\ The(The(hist.snap).attributes.finishes_at).kind = "ts"

(* its finishes_at; no second has passed since, so `now` is the time it ran *)
RestoredEnd == The(The(hist.snap).attributes.finishes_at).t

(* C1: at no point are two callbacks of the Timer scheduled, not yet run *)
(* and not cancelled.                                                    *)
C1_AtMostOnePendingCallback == BagCardinality(sched) <= 1

(* C2: after any completed operation a callback of the Timer is scheduled *)
(* if and only if its state is active.                                    *)
C2_CallbackIffActive ==
    Completed => ((BagCardinality(sched) > 0) <=> (state = STATUS_ACTIVE))

(* C3: after any completed operation, restore included, end_at is present *)
(* if and only if the state is active.                                    *)
C3_EndIffActive ==
    Completed => ((end # None) <=> (state = STATUS_ACTIVE))

(* C4: whenever the Timer's state is written, its remaining time is zero *)
(* or more.                                                              *)
C4_StoredRemainingNonNegative == wrote => remaining >= 0

(* C5: finish() and the timeout callback share one guard: run on an active  *)
(* Timer, either makes it idle with end_at absent and remaining zero and    *)
(* fires exactly one finished event; run on a Timer that is not active, as  *)
(* the second of the two is, either changes nothing and fires nothing.      *)
C5_IdempotentFinish ==
    [][hist'.op \in {"finish", "timeout"} =>
        /\ state = STATUS_ACTIVE =>
              /\ state' = STATUS_IDLE
              /\ end' = None
              /\ remaining' = 0
              /\ emitted' = <<EVENT_TIMER_FINISHED>>
        /\ state # STATUS_ACTIVE =>
              /\ UNCHANGED <<state, end, remaining, duration, listener>>
              /\ emitted' = <<>>
              /\ ~wrote']_vars

(* the timeout callback ran after finish() had made the Timer idle, and did *)
(* nothing                                                                  *)
C5_Witness ==
    /\ hist.op = "timeout"
    /\ state = STATUS_IDLE
    /\ end = None
    /\ remaining = 0
    /\ listener = None
    /\ emitted = <<>>

(* C6: restoring an active state whose overrun is within the grace period  *)
(* (from end_at = now to end_at = now - grace, and any end_at still ahead)  *)
(* leaves the Timer active with end_at = now + (E - now), exactly one       *)
(* callback scheduled, at that instant, and exactly one restarted event.    *)
C6_RestoreWithinGrace ==
    (RestoredActive /\ (RestoredEnd - now) + The(grace) >= 0) =>
        /\ state = STATUS_ACTIVE
        /\ end = Some(now + (RestoredEnd - now))
        /\ sched = SetToBag({Callback(now + (RestoredEnd - now), TRUE)})
        /\ emitted = <<EVENT_TIMER_RESTARTED>>

(* C7: restoring an active state whose overrun exceeds the grace period  *)
(* leaves the Timer idle with end_at absent and remaining zero, fires no *)
(* event and schedules no callback.                                      *)
C7_RestoreBeyondGrace ==
    (RestoredActive /\ (RestoredEnd - now) + The(grace) < 0) =>
        /\ state = STATUS_IDLE
        /\ end = None
        /\ remaining = 0
        /\ emitted = <<>>
        /\ sched = EmptyBag

(* C8: after restore reconciliation the state is idle, active or paused; a *)
(* recorded state outside that set gives idle, end_at absent and remaining *)
(* zero.                                                                   *)
C8_RestoredStateViable ==
    (hist.op = "attach" /\ Truthy(restore) /\ ~raised /\ hist.snap # None) =>
        /\ state \in VIABLE_STATUSES
        /\ The(hist.snap).state \notin VIABLE_STATUSES =>
              (state = STATUS_IDLE /\ end = None /\ remaining = 0)

(* C9: pause() and finish() on a Timer that is not active change neither   *)
(* state, remaining, end_at nor the scheduled callbacks, and fire no event. *)
C9_NoOpUnlessActive ==
    [][(hist'.op \in {"pause", "finish"} /\ state # STATUS_ACTIVE) =>
        /\ UNCHANGED <<state, remaining, end, sched>>
        /\ emitted' = <<>>]_vars

(* C10: update_config with restore disabled leaves the Timer idle, end_at *)
(* absent, remaining zero and no callback of the Timer scheduled.         *)
C10_UpdateRestoreDisabled ==
    (hist.op = "update_config" /\ ~Truthy(restore)) =>
        /\ state = STATUS_IDLE
        /\ end = None
        /\ remaining = 0
        /\ sched = EmptyBag

(* C11: the pause/resume round trip. After start(d) on an idle Timer and   *)
(* pause() e seconds later (0 < e < d, nothing else called, no callback    *)
(* run) the Timer is paused, has no end and remaining = d - e; the start() *)
(* without a duration that follows, at whatever time, leaves it active     *)
(* with end = now + (d - e) and emits restarted.                           *)
C11_PauseResumeRoundTrip ==
    /\ hist.trip.stage = "paused" =>
          /\ state = STATUS_PAUSED
          /\ end = None
          /\ remaining = hist.trip.d - hist.trip.e
    /\ hist.trip.stage = "resumed" =>
          /\ state = STATUS_ACTIVE
          /\ end = Some(now + (hist.trip.d - hist.trip.e))
          /\ emitted = <<EVENT_TIMER_RESTARTED>>

C11_Witness ==
    /\ hist.trip.stage = "resumed"
    /\ hist.trip.e > 0
    /\ hist.trip.e < hist.trip.d
    /\ ~raised

(* the duration a start step was called with, 0 when it was called without *)
Requested == IF hist'.d = None THEN 0 ELSE The(hist'.d)

(* C12: start(requested) resolves the countdown in priority order:         *)
(* remaining non-zero and nothing requested keeps remaining; otherwise a   *)
(* requested duration becomes duration and remaining; otherwise remaining  *)
(* becomes duration. Every case ends active with end = now + remaining and *)
(* without an error, also with duration 0 and remaining 0 (end = now).     *)
C12_StartPriority ==
    [][hist'.op = "start" =>
        /\ (remaining # 0 /\ Requested = 0) =>
              remaining' = remaining /\ duration' = duration
        /\ Requested # 0 =>
              remaining' = Requested /\ duration' = Requested
        /\ (remaining = 0 /\ Requested = 0) =>
              remaining' = duration /\ duration' = duration
        /\ state' = STATUS_ACTIVE
        /\ end' = Some(now + remaining')
        /\ ~raised']_vars

C12_Witness ==
    /\ hist.op = "start"
    /\ hist.d = Some(0)
    /\ duration = 0
    /\ remaining = 0
    /\ state = STATUS_ACTIVE
    /\ end = Some(now)
    /\ ~raised

C14_StartEvent ==
    [][hist'.op = "start" =>
        /\ Len(emitted') = 1
        /\ state = STATUS_IDLE => emitted' = <<EVENT_TIMER_STARTED>>
        /\ state \in {STATUS_ACTIVE, STATUS_PAUSED} =>
              emitted' = <<EVENT_TIMER_RESTARTED>>]_vars

C14_Witness ==
    /\ hist.op = "start"
    /\ state = STATUS_ACTIVE
    /\ emitted = <<EVENT_TIMER_RESTARTED>>
    /\ hist.trip.stage = "resumed"

(* C15: with restore disabled (the configured value says false), attaching *)
(* the Timer always ends idle, with no callback scheduled and no event     *)
(* fired, whatever last recorded state there is.                           *)
C15_AttachRestoreDisabled ==
    (hist.op = "attach" /\ ~restore.v) =>
        /\ ~raised
        /\ state = STATUS_IDLE
        /\ BagCardinality(sched) = 0
        /\ emitted = <<>>

(* the last recorded state carries a remaining or finishes_at that cannot *)
(* be read (the model's recorded durations are always readable)            *)
Malformed(attrs) ==
    \/ attrs.remaining \in {Some(BadStr), Some(ShortStr)}
    \/ attrs.finishes_at = Some(BadTs)

(* C16: restore reconciliation never raises on a malformed last recorded   *)
(* state: whenever a remaining, duration or end value cannot be read, it   *)
(* completes and leaves the Timer idle with remaining zero and no end.     *)
C16_RestoreMalformed ==
    (hist.op = "attach" /\ Truthy(restore) /\ hist.snap # None) =>
        /\ ~raised
        /\ Malformed(The(hist.snap).attributes) =>
              /\ state = STATUS_IDLE
              /\ remaining = 0
              /\ end = None

(* C17: whenever the scheduled callback takes effect (active to idle,      *)
(* finished fired) the time is at or after the Timer's end; a callback      *)
(* armed by an earlier start never ends a later start's countdown early.    *)
C17_TimeoutNotEarly ==
    [][(hist'.op = "timeout" /\ state = STATUS_ACTIVE /\ state' = STATUS_IDLE) =>
        /\ end # None
        /\ now >= The(end)]_vars

(* C18: once the Timer is active and no service is called and no           *)
(* configuration updated any more, then under a clock that goes on and a    *)
(* scheduler that runs due callbacks it eventually is idle with no end and  *)
(* remaining zero; in that time the only event fired is one finished event, *)
(* by the step that takes it from active to idle.                           *)
C18_EventuallyFinished ==
    /\ (pc = "quiet" /\ state = STATUS_ACTIVE) ~>
          (state = STATUS_IDLE /\ end = None /\ remaining = 0)
    /\ [][(pc = "quiet" /\ emitted' # <<>>) =>
            /\ hist'.op = "timeout"
            /\ state = STATUS_ACTIVE
            /\ state' = STATUS_IDLE
            /\ emitted' = <<EVENT_TIMER_FINISHED>>]_vars
    /\ [][(pc = "quiet" /\ state # STATUS_ACTIVE) => state' # STATUS_ACTIVE]_vars

C18_Witness ==
    /\ pc = "quiet"
    /\ hist.op = "timeout"
    /\ state = STATUS_IDLE
    /\ end = None
    /\ remaining = 0
    /\ emitted = <<EVENT_TIMER_FINISHED>>
    /\ now > MaxTime

(* the number of callbacks scheduled for the time at *)
ScheduledAt(callbacks, at) ==
    CopiesIn(Callback(at, TRUE), callbacks) + CopiesIn(Callback(at, FALSE), callbacks)

(* C19: update_config with restore enabled keeps the timer in flight: an   *)
(* active Timer whose end is in the future stays active with the same end   *)
(* and exactly one callback scheduled, at that end; a paused Timer stays    *)
(* paused with the same remaining; an idle Timer stays idle.                *)
C19_UpdateRestoreEnabled ==
    [][(hist'.op = "update_config" /\ Truthy(restore')) =>
        /\ ~raised'
        /\ (state = STATUS_ACTIVE /\ end # None /\ The(end) > now) =>
              /\ state' = STATUS_ACTIVE
              /\ end' = end
              /\ ScheduledAt(sched', The(end)) = 1
        /\ state = STATUS_PAUSED =>
              state' = STATUS_PAUSED /\ remaining' = remaining
        /\ state = STATUS_IDLE => state' = STATUS_IDLE]_vars

(* C20: on restoring with restore enabled, a Timer whose configured        *)
(* duration is zero takes the non-zero duration of the last recorded state, *)
(* and the reconciliation does not raise.                                   *)
C20_RestoreDuration ==
    [][(/\ hist'.op = "attach"
        /\ Truthy(restore)
        /\ hist'.snap # None
        /\ duration = 0
        /\ ParseHms(The(The(hist'.snap).attributes.duration)) # 0) =>
            /\ ~raised'
            /\ duration' = ParseHms(The(The(hist'.snap).attributes.duration))]_vars

====
